---- MODULE Spec2Model ----
(***************************************************************************)
(* Payment orchestration core of SolanaPasskeyPay.                         *)
(*                                                                         *)
(*   PayWithUSDC/index.tsx  (src/unnamed/part_002, lines 131-386)          *)
(*   PaymentButton.tsx      (src/unnamed/part_001)                         *)
(*   usdcWalletCheck.ts     (src/src/utils/usdcWalletCheck.ts)             *)
(*                                                                         *)
(* One PayWithUSDC component instance is modelled.  Every run of the async *)
(* handler handlePayment is an entry of `attempts`; an action is the code  *)
(* the handler runs between two awaits (React batches the state updates of *)
(* one such run into a single render, and the auto-reset effect runs on    *)
(* that render).  Strings that the code searches with String.includes are  *)
(* sequences of tokens; includes is contiguous sub-sequence search.        *)
(***************************************************************************)
EXTENDS Integers, Sequences, FiniteSets

None == "none"

\* ------------------------------------------------------------------ bounds
\* Runs of handlePayment recorded per behaviour.
MaxAttempts == 2

\* Runs of checkUSDCReadiness recorded per behaviour.
MaxCalls == 2
\* On the store page: runs of handlePayment and of the wallet button's check.
MaxPageAttempts == 1
MaxPageCalls == 1

\* ------------------------------------------------------- program constants
\* MIN_USDC_THRESHOLD = 0.1 USDC, in base units (10^-6 USDC).
MIN_USDC_THRESHOLD == 100000
\* setTimeout(..., 5000): the auto-reset window, in seconds.
COUNTDOWN_START == 5
RESET_WINDOW == 5
\* computeUnitLimit: 300_000, kept in thousands.
COMPUTE_UNIT_LIMIT_K == 300
\* const USDC_DECIMALS = 6, and LAMPORTS_PER_SOL of @solana/web3.js
USDC_DECIMALS == 6
LAMPORTS_PER_SOL == 10^9

\* ------------------------------------------------------------ value domains
PaymentState == {"idle", "connecting", "authenticating", "processing", "success", "error"}

Wallets == {"walletA"}
\* Addresses handed to checkUSDCReadiness.
Addresses == {"walletA", "walletB"}
\* USDC balances, in base units (10^-6 USDC).
Balances == {0, 50000, 100000}
Signatures == {"sigA", "sigB"}
\* The amount prop is a JavaScript number of whole coins; it is held here in
\* units of 10^-7 coin: nothing, 0.0000004, 0.1 (the cheapest demo product)
\* and 2.01.
AmountScale == 10^7
DemoPrice == AmountScale \div 10
TwoPointOhOne == 201 * (AmountScale \div 100)
Amounts == {0, 4, DemoPrice, TwoPointOhOne}

\* The amounts among these whose product with a power of ten, a whole number
\* in decimal arithmetic, is a double just below that whole number:
\* 2.01 * 1000000 evaluates to 2009999.9999999998 and 2.01 * 1000000000 to
\* 2009999999.9999998, while 0.1 * 1000000 evaluates to 100000.
ProductFallsBelow == {TwoPointOhOne}

\* Failure messages, as token sequences.
MsgInsufficientLower == <<"Error:", "insufficient", "funds">>
MsgInsufficientUpper == <<"Insufficient", "funds", "for", "transfer">>
MsgTokenError0x1     == <<"custom", "program", "error:", "0x1">>
MsgNoAccount         == <<"TokenAccountNotFound">>
MsgNoAccountBalance  == <<"TokenAccountNotFound", "insufficient">>
MsgUserRejected      == <<"User", "rejected", "signing">>
MsgEmpty             == <<>>

\* The fixed texts of the component.
TextPaymentFailed    == <<"Payment", "failed">>
TextConnectionFailed == <<"Wallet", "connection", "failed">>
TextNotConnected     == <<"Wallet", "not", "connected">>
TextInvalidKey       == <<"Invalid", "public", "key", "input">>
TextAccountGuidance  == <<"USDC", "account", "not", "found.", "Get", "USDC", "from", "faucet", "first.">>
TextInsufficient     == <<"Insufficient", "USDC", "balance">>

\* A thrown / rejected value: nothing at all, a value without .message, or an
\* Error carrying a message.
Undefined == [kind |-> "undefined", message |-> MsgEmpty]
NoMessage == [kind |-> "nomessage", message |-> MsgEmpty]
Err(m)    == [kind |-> "error", message |-> m]

\* The value of useState<string>() for the error text: unset, or a text.
NoText  == [present |-> FALSE, text |-> <<>>]
Text(t) == [present |-> TRUE, text |-> t]

\* Rejections of signAndSendTransaction, each with the cause it stands for.
SubmitRejections ==
  { [cause |-> "balance", err |-> Err(MsgInsufficientLower)],
    [cause |-> "balance", err |-> Err(MsgInsufficientUpper)],
    [cause |-> "balance", err |-> Err(MsgTokenError0x1)],
    [cause |-> "balance", err |-> Err(MsgNoAccountBalance)],
    [cause |-> "account", err |-> Err(MsgNoAccount)],
    [cause |-> "declined", err |-> Err(MsgUserRejected)],
    [cause |-> "other", err |-> Err(MsgEmpty)],
    [cause |-> "other", err |-> NoMessage],
    [cause |-> "other", err |-> Undefined] }

\* Rejections of connect, and values thrown by the onSuccess / onError props.
ConnectRejections == { Err(MsgUserRejected), NoMessage }
CallbackThrows    == { Err(MsgUserRejected) }

VARIABLES
  status,        \* useState<PaymentState>('idle')
  signature,     \* useState<string>()
  error,         \* useState<string>()
  timerArmed,    \* the auto-reset setTimeout is pending
  elapsed,       \* seconds since the pending timer was set
  walletPubkey,  \* smartWalletPubkey as the SDK currently reports it
  merchantATA,   \* the merchant's USDC token account exists on chain
  props,         \* PayWithUSDCProps of the instance
  attempts,      \* the runs of handlePayment, oldest first
  localStore,    \* localStorage: how it behaves, and the set under CHECKED_WALLETS_KEY
  chain,         \* per wallet: its USDC token account and balance
  calls,         \* the runs of checkUSDCReadiness, oldest first
  hasCheckedUSDC,  \* WalletButton: useRef(false), set once the check was started
  showFaucetGuide, \* WalletButton: useState(false)
  mounted,         \* AutoConnectWrapper: its effects have run for the first render
  sessionFlag,     \* localStorage holds 'lazorkit_connected'
  isConnected,     \* useLazorkitWallet().isConnected as AutoConnectWrapper sees it
  walletObj,       \* useLazorkitWallet().wallet as AutoConnectWrapper sees it
  connectCalls,    \* the connect calls of this page load, oldest first
  transactions,    \* useTransactions: useState<Transaction[]>, newest first
  countdown,       \* PaymentStatus: useState(5)
  intervalArmed,   \* PaymentStatus: the setInterval of the countdown effect is running
  trackCallbacks   \* history switch: the attempts count their onSuccess / onError invocations

payVars   == <<status, signature, error, timerArmed, elapsed, walletPubkey, merchantATA, props, attempts>>
readyVars == <<localStore, chain, calls>>
buttonVars == <<hasCheckedUSDC, showFaucetGuide>>
sessionVars == <<mounted, sessionFlag, isConnected, walletObj, connectCalls>>
vars      == <<status, signature, error, timerArmed, elapsed, walletPubkey, merchantATA, props, attempts,
               localStore, chain, calls, hasCheckedUSDC, showFaucetGuide,
               mounted, sessionFlag, isConnected, walletObj, connectCalls, transactions,
               countdown, intervalArmed, trackCallbacks>>
storeVars == <<transactions>>
statusVars == <<countdown, intervalArmed>>

\* A page whose session wrapper is left out of the picture: nothing stored,
\* no session, no connect call.
SessionIdle ==
  /\ mounted = FALSE
  /\ sessionFlag = FALSE
  /\ isConnected = FALSE
  /\ walletObj = None
  /\ connectCalls = <<>>

\* No payment was recorded yet; PaymentStatus as first rendered.
StoreIdle ==
  /\ transactions = <<>>
  /\ countdown = COUNTDOWN_START
  /\ intervalArmed = FALSE

\* The invocation counts of the callbacks are history: they are kept only in
\* the specification that examines them, and stay 0 in the others.
CallbacksUncounted == trackCallbacks = FALSE
CallbacksCounted   == trackCallbacks = TRUE

\* ------------------------------------------------------------ string search
\* String.prototype.includes on token sequences.
Includes(msg, needle) ==
  \E i \in 1..(Len(msg) - Len(needle) + 1) : SubSeq(msg, i, i + Len(needle) - 1) = needle

\* =========================================================================
\*  PayWithUSDC: instruction building
\* =========================================================================
CreateATAInstruction(payer) ==
  [type |-> "createATA", from |-> payer, to |-> "merchant", amount |-> 0]
TokenTransferInstruction(owner, baseUnits) ==
  [type |-> "tokenTransfer", from |-> owner, to |-> "merchant", amount |-> baseUnits]
SOLTransferInstruction(owner, lamports) ==
  [type |-> "solTransfer", from |-> owner, to |-> "merchant", amount |-> lamports]

\* Math.floor(usdcAmount * Math.pow(10, USDC_DECIMALS)): with the amount in
\* units of 10^-7 coin the decimal product is amount / 10; the floor is taken
\* of the double product.
BaseUnits(usdcAmount) ==
  LET decimal == usdcAmount \div (AmountScale \div 10^USDC_DECIMALS) IN
  IF usdcAmount \in ProductFallsBelow THEN decimal - 1 ELSE decimal

\* Math.floor(amount * LAMPORTS_PER_SOL): the decimal product is a whole
\* number of lamports; the floor is taken of the double product.
Lamports(amount) ==
  LET decimal == amount * (LAMPORTS_PER_SOL \div AmountScale) IN
  IF amount \in ProductFallsBelow THEN decimal - 1 ELSE decimal

\* Outcome of `await getAccount(connection, toTokenAccount)`: the account is
\* returned, the RPC answers that there is none, or the call fails.
ProbeOutcomes(exists) == (IF exists THEN {"found"} ELSE {"missing"}) \cup {"rpcError"}

\* let merchantATAExists = true; try { await getAccount } catch { = false }
MerchantATAExists(outcome) == outcome = "found"

\* Variant: the transfer pushed before the account creation.
createUSDCInstructionsTransferFirst(wallet, usdcAmount, merchantATAExists) ==
  <<TokenTransferInstruction(wallet, BaseUnits(usdcAmount))>>
    \o (IF ~merchantATAExists THEN <<CreateATAInstruction(wallet)>> ELSE <<>>)

\* createUSDCInstructions after the probe: the optional account creation is
\* pushed first, the transfer last.
createUSDCInstructions(wallet, usdcAmount, merchantATAExists) ==
  (IF ~merchantATAExists THEN <<CreateATAInstruction(wallet)>> ELSE <<>>)
    \o <<TokenTransferInstruction(wallet, BaseUnits(usdcAmount))>>

\* instructions = [createSOLTransferInstruction(destination, lamports)]
createSOLInstructions(wallet, amount) == <<SOLTransferInstruction(wallet, Lamports(amount))>>

\* No request issued yet.
NoRequest == [instructions |-> <<>>, feeToken |-> None, computeUnitLimit |-> 0]

\* The request handed to signAndSendTransaction.
SubmitRequest(instructions) ==
  [instructions |-> instructions, feeToken |-> "USDC", computeUnitLimit |-> COMPUTE_UNIT_LIMIT_K]

\* =========================================================================
\*  PayWithUSDC: the catch block of handlePayment
\* =========================================================================
\* let message = err.message ?? 'Payment failed'; then the two includes tests.
\* Reading .message of undefined throws inside the catch block, after
\* setStatus('error') and before setError: the error text stays unset.
CatchMessage(err) ==
  IF err.kind = "undefined" THEN NoText
  ELSE LET raw == IF err.kind = "nomessage" THEN TextPaymentFailed ELSE err.message
       IN  IF Includes(raw, <<"TokenAccountNotFound">>) THEN Text(TextAccountGuidance)
           ELSE IF Includes(raw, <<"insufficient">>) THEN Text(TextInsufficient)
           ELSE Text(raw)

\* =========================================================================
\*  PaymentButton
\* =========================================================================
\* Variant: the status test dropped from the disabled attribute.
ButtonDisabledByPropOnly(st, disabledProp) == disabledProp

\* Variant: the button is disabled only while the handler is running.
ButtonDisabledWhileRunning(st, disabledProp) ==
  disabledProp \/ st \in {"connecting", "authenticating"}

\* disabled={disabled || status !== 'idle'}
ButtonDisabled(st, disabledProp) == disabledProp \/ st # "idle"

\* =========================================================================
\*  PayWithUSDC: handlePayment, one action per stretch between awaits
\* =========================================================================
Terminal == {"success", "error"}

NewAttempt(wallet) ==
  [ pc           |-> "start",     \* "connect" | "probe" | "submit" | "done"
    startedFrom  |-> status,      \* the status the click found
    wallet       |-> wallet,      \* smartWalletPubkey as captured by the closure
    connects     |-> 0,           \* connect(...) calls issued
    submits      |-> 0,           \* signAndSendTransaction(...) calls issued
    connected    |-> None,        \* the wallet the connect call resolved with
    probe        |-> None,        \* outcome of the recipient-account probe
    ataAtProbe   |-> FALSE,       \* what the chain held when the probe ran
    request      |-> NoRequest,       \* the request of the submit call
    outcome      |-> "pending",   \* how the run ended
    sig          |-> None,        \* signature the submit call resolved with
    cause        |-> None,        \* cause of the submit rejection
    onSuccessCalls |-> 0,         \* onSuccess?.(sig) invocations
    onErrorCalls |-> 0 ]          \* onError?.(err) invocations

InFlight(a) == a.pc # "done"

\* The wallet the handler sees at `if (!smartWalletPubkey)` after
\* `await connect(...)`: smartWalletPubkey is a const of the render that
\* created the handler, so it is the captured value, not the SDK's new one.
WalletAfterConnect(captured, sdkWallet) == captured

\* onError?.(err), the last statement of the catch block: reached unless
\* `err.message` threw before it, which it does for a caught undefined.
OnErrorInvoked(a, err) ==
  [a EXCEPT !.onErrorCalls = @ + (IF trackCallbacks /\ err.kind # "undefined" THEN 1 ELSE 0)]

\* onSuccess?.(sig), the last statement of the try block.
OnSuccessInvoked(a) ==
  [a EXCEPT !.onSuccessCalls = @ + (IF trackCallbacks THEN 1 ELSE 0)]

\* Variant: the catch block records the fault and the handler does not return.
CatchAttemptStaysInFlight(a, how) == [a EXCEPT !.outcome = how]

\* Variant: the catch block issues the submit call again.
CatchAttemptRetries(a, how) ==
  [a EXCEPT !.pc = "submit", !.submits = @ + 1, !.outcome = how]

\* The attempt after the catch block ran: the handler returns.
CatchAttempt(a, how) == [a EXCEPT !.pc = "done", !.outcome = how]

\* Variant: the effect returns no cleanup, so a set timer is never cleared.
AutoResetEffectNoCleanup(newStatus) ==
  IF newStatus # status /\ newStatus \in Terminal
  THEN /\ timerArmed' = TRUE
       /\ elapsed' = 0
  ELSE UNCHANGED <<timerArmed, elapsed>>

\* Variant: the countdown effect returns no cleanup.
CountdownEffectNoCleanup(newStatus) ==
  IF newStatus # status /\ newStatus \in {"success", "error"}
  THEN /\ countdown' = COUNTDOWN_START
       /\ intervalArmed' = TRUE
  ELSE UNCHANGED <<countdown, intervalArmed>>

\* PaymentStatus, useEffect(..., [status]): on a render with a changed status
\* the running interval is cleared and, in success or error, the countdown is
\* set to 5 and a new interval is started.
CountdownEffect(newStatus) ==
  IF newStatus # status
  THEN IF newStatus \in {"success", "error"}
       THEN /\ countdown' = COUNTDOWN_START
            /\ intervalArmed' = TRUE
       ELSE /\ countdown' = countdown
            /\ intervalArmed' = FALSE
  ELSE UNCHANGED <<countdown, intervalArmed>>

\* useEffect(..., [status]): on a render with a changed status the pending
\* timer is cleared and, in a terminal state, a new one is set.
AutoResetEffect(newStatus) ==
  IF newStatus # status
  THEN /\ timerArmed' = (newStatus \in Terminal)
       /\ elapsed' = 0
  ELSE UNCHANGED <<timerArmed, elapsed>>

\* Variant: the wallet tests of the handler and of the builders always pass.
WalletAbsentNever(w) == FALSE

\* `!smartWalletPubkey`, as tested by the handler after the connect step and
\* again by createUSDCInstructions and createSOLTransferInstruction.
WalletAbsent(w) == w = None

\* Lines 311-341 up to the next await, for the wallet value `w` the handler
\* sees.  Gives the attempt, the status and the error text after that stretch.
AfterSession(a, w) ==
  IF WalletAbsent(w)
  THEN [att |-> OnErrorInvoked(CatchAttempt(a, "noWallet"), Err(TextConnectionFailed)),
        status |-> "error", error |-> CatchMessage(Err(TextConnectionFailed))]
  ELSE IF ~props.merchantValid
  THEN [att |-> OnErrorInvoked(CatchAttempt(a, "buildFailed"), Err(TextInvalidKey)),
        status |-> "error", error |-> CatchMessage(Err(TextInvalidKey))]
  ELSE IF WalletAbsent(w)
  THEN [att |-> OnErrorInvoked(CatchAttempt(a, "buildFailed"), Err(TextNotConnected)),
        status |-> "error", error |-> CatchMessage(Err(TextNotConnected))]
  ELSE IF props.currency = "USDC"
  THEN [att |-> [a EXCEPT !.pc = "probe"], status |-> "connecting", error |-> NoText]
  ELSE [att |-> [a EXCEPT !.pc = "submit", !.submits = @ + 1,
                          !.request = SubmitRequest(createSOLInstructions(w, props.amount))],
        status |-> "authenticating", error |-> NoText]

\* Variant: connect is called whatever the captured wallet.
NeedsConnectAlways(wallet) == TRUE

\* if (!smartWalletPubkey) await connect(...)
NeedsConnect(wallet) == wallet = None

\* onClick={handlePayment}: the browser delivers no click to a disabled
\* button.  setError(undefined); setStatus('connecting'); then connect when
\* the captured wallet is absent, else straight on.
Click ==
  /\ Len(attempts) < MaxAttempts
  /\ IF ButtonDisabled(status, props.disabled)
     THEN UNCHANGED vars
     ELSE LET a == NewAttempt(walletPubkey) IN
          /\ IF NeedsConnect(a.wallet)
             THEN /\ attempts' = Append(attempts, [a EXCEPT !.pc = "connect", !.connects = @ + 1])
                  /\ status' = "connecting"
                  /\ error' = NoText
             ELSE LET r == AfterSession(a, a.wallet) IN
                  /\ attempts' = Append(attempts, r.att)
                  /\ status' = r.status
                  /\ error' = r.error
          /\ AutoResetEffect(status')
          /\ CountdownEffect(status')
          /\ UNCHANGED <<signature, walletPubkey, merchantATA, props, localStore, chain, calls, buttonVars, sessionVars, storeVars, trackCallbacks>>

\* `await connect(...)` resolves; the SDK publishes the wallet it produced.
ConnectResolve(i, w) ==
  /\ attempts[i].pc = "connect"
  /\ w # None
  /\ LET a == [attempts[i] EXCEPT !.connected = w]
         r == AfterSession(a, WalletAfterConnect(a.wallet, w)) IN
     /\ attempts' = [attempts EXCEPT ![i] = r.att]
     /\ status' = r.status
     /\ error' = r.error
  /\ walletPubkey' = w
  /\ AutoResetEffect(status')
  /\ CountdownEffect(status')
  /\ UNCHANGED <<signature, merchantATA, props, localStore, chain, calls, buttonVars, sessionVars, storeVars, trackCallbacks>>

\* `await connect(...)` rejects: the catch block runs.
ConnectReject(i, err) ==
  /\ attempts[i].pc = "connect"
  /\ attempts' = [attempts EXCEPT ![i] = OnErrorInvoked(CatchAttempt(@, "connectFailed"), err)]
  /\ status' = "error"
  /\ error' = CatchMessage(err)
  /\ AutoResetEffect(status')
  /\ CountdownEffect(status')
  /\ UNCHANGED <<signature, walletPubkey, merchantATA, props, localStore, chain, calls, buttonVars, sessionVars, storeVars, trackCallbacks>>

\* The recipient-account probe of createUSDCInstructions returns; the
\* instructions are built, setStatus('authenticating'), and the submit call
\* is issued.
ProbeDone(i, outcome) ==
  /\ attempts[i].pc = "probe"
  /\ outcome \in ProbeOutcomes(merchantATA)
  /\ LET a == attempts[i]
         ins == createUSDCInstructions(a.wallet, props.amount, MerchantATAExists(outcome)) IN
     attempts' = [attempts EXCEPT ![i] =
                    [a EXCEPT !.pc = "submit", !.probe = outcome, !.ataAtProbe = merchantATA,
                              !.submits = @ + 1, !.request = SubmitRequest(ins)]]
  /\ status' = "authenticating"
  /\ AutoResetEffect(status')
  /\ CountdownEffect(status')
  /\ UNCHANGED <<signature, error, walletPubkey, merchantATA, props, localStore, chain, calls, buttonVars, sessionVars, storeVars, trackCallbacks>>

\* DemoStoreView.handleSuccess: the record of a completed payment of the
\* product on sale.
handleSuccess(sig) ==
  [signature |-> sig, status |-> "completed", amount |-> DemoPrice, currency |-> "USDC"]

\* Variant: the new record is put last.
addTransactionAppends(prev, transaction) == prev \o <<transaction>>

\* useTransactions.addTransaction: setTransactions(prev => [transaction, ...prev]).
addTransaction(prev, transaction) == <<transaction>> \o prev

\* signAndSendTransaction resolves with `sig`: setSignature, setStatus
\* ('success'), onSuccess?.(sig).  A throwing onSuccess lands in the catch
\* block of the same try; the store's handleSuccess records the payment.
SubmitResolve(i, sig, onSuccess) ==
  /\ attempts[i].pc = "submit"
  /\ signature' = sig
  /\ \/ /\ onSuccess = "returns"
        /\ status' = "success"
        /\ error' = error
        /\ attempts' = [attempts EXCEPT ![i] = OnSuccessInvoked([CatchAttempt(@, "resolved") EXCEPT
                                                  !.sig = sig])]
     \/ /\ onSuccess = "throws"
        /\ \E thrown \in CallbackThrows :
             /\ status' = "error"
             /\ error' = CatchMessage(thrown)
             /\ attempts' = [attempts EXCEPT ![i] =
                               OnErrorInvoked(OnSuccessInvoked([CatchAttempt(@, "resolved") EXCEPT
                                                                  !.sig = sig]), thrown)]
     \/ /\ onSuccess = "handleSuccess"
        /\ status' = "success"
        /\ error' = error
        /\ attempts' = [attempts EXCEPT ![i] = OnSuccessInvoked([CatchAttempt(@, "resolved") EXCEPT
                                                  !.sig = sig])]
  /\ transactions' = IF onSuccess = "handleSuccess"
                     THEN addTransaction(transactions, handleSuccess(sig))
                     ELSE transactions
  /\ AutoResetEffect(status')
  /\ CountdownEffect(status')
  /\ UNCHANGED <<walletPubkey, merchantATA, props, localStore, chain, calls, buttonVars, sessionVars, trackCallbacks>>

\* signAndSendTransaction rejects: the catch block runs.
SubmitReject(i, rej) ==
  /\ attempts[i].pc = "submit"
  /\ attempts' = [attempts EXCEPT ![i] =
                    OnErrorInvoked([CatchAttempt(@, "rejected") EXCEPT !.cause = rej.cause], rej.err)]
  /\ status' = "error"
  /\ error' = CatchMessage(rej.err)
  /\ AutoResetEffect(status')
  /\ CountdownEffect(status')
  /\ UNCHANGED <<signature, walletPubkey, merchantATA, props, localStore, chain, calls, buttonVars, sessionVars, storeVars, trackCallbacks>>

\* Variant: the timer callback forgets setSignature(undefined).
ResetStateKeepsSignature == [status |-> "idle", signature |-> signature, error |-> NoText]

\* Variant: the timer callback forgets setError(undefined).
ResetStateKeepsError == [status |-> "idle", signature |-> None, error |-> error]

\* The values the auto-reset callback sets.
ResetState == [status |-> "idle", signature |-> None, error |-> NoText]

\* One second passes while the auto-reset timer is pending.
TimerTick ==
  /\ timerArmed
  /\ elapsed < RESET_WINDOW
  /\ elapsed' = elapsed + 1
  /\ UNCHANGED <<status, signature, error, timerArmed, walletPubkey, merchantATA, props, attempts,
                 localStore, chain, calls, buttonVars, sessionVars, storeVars, statusVars, trackCallbacks>>

\* The setTimeout callback runs: setStatus('idle'); setSignature(undefined);
\* setError(undefined).
TimerFire ==
  /\ timerArmed
  /\ elapsed = RESET_WINDOW
  /\ status' = ResetState.status
  /\ signature' = ResetState.signature
  /\ error' = ResetState.error
  /\ AutoResetEffect(status')
  /\ CountdownEffect(status')
  /\ UNCHANGED <<walletPubkey, merchantATA, props, attempts, localStore, chain, calls, buttonVars, sessionVars, storeVars, trackCallbacks>>

\* Environment: the session ends elsewhere, or is established elsewhere
\* (wallet button, session restore); another payer creates the merchant's
\* token account.
SessionChange(w) ==
  /\ w \in Wallets \cup {None}
  /\ w # walletPubkey
  /\ walletPubkey' = w
  /\ UNCHANGED <<status, signature, error, timerArmed, elapsed, merchantATA, props, attempts,
                 localStore, chain, calls, buttonVars, sessionVars, storeVars, statusVars, trackCallbacks>>

MerchantATACreated ==
  /\ ~merchantATA
  /\ merchantATA' = TRUE
  /\ UNCHANGED <<status, signature, error, timerArmed, elapsed, walletPubkey, props, attempts,
                 localStore, chain, calls, buttonVars, sessionVars, storeVars, statusVars, trackCallbacks>>

\* Instances at the demo price.
PropsSet ==
  [currency : {"USDC", "SOL"}, disabled : BOOLEAN, merchantValid : BOOLEAN, amount : {DemoPrice}]

\* Enabled instances with a valid merchant key, at every amount.
AmountPropsSet ==
  [currency : {"USDC", "SOL"}, disabled : {FALSE}, merchantValid : {TRUE}, amount : Amounts]

PayInit ==
  /\ status = "idle"
  /\ signature = None
  /\ error = NoText
  /\ timerArmed = FALSE
  /\ elapsed = 0
  /\ walletPubkey \in Wallets \cup {None}
  /\ merchantATA \in BOOLEAN
  /\ props \in PropsSet
  /\ attempts = <<>>

ReadyIdle ==
  /\ localStore = [mode |-> "ok", wallets |-> {}]
  /\ chain = [w \in Addresses |-> [ata |-> FALSE, balance |-> 0]]
  /\ calls = <<>>
  /\ hasCheckedUSDC = FALSE
  /\ showFaucetGuide = FALSE

Init == PayInit /\ ReadyIdle /\ SessionIdle /\ StoreIdle /\ CallbacksUncounted

Next ==
  \/ Click
  \/ \E i \in DOMAIN attempts : \E w \in Wallets : ConnectResolve(i, w)
  \/ \E i \in DOMAIN attempts : \E err \in ConnectRejections : ConnectReject(i, err)
  \/ \E i \in DOMAIN attempts : \E o \in {"found", "missing", "rpcError"} : ProbeDone(i, o)
  \/ \E i \in DOMAIN attempts : \E sig \in Signatures : \E cb \in {"returns", "throws"} :
       SubmitResolve(i, sig, cb)
  \/ \E i \in DOMAIN attempts : \E rej \in SubmitRejections : SubmitReject(i, rej)
  \/ TimerTick
  \/ TimerFire
  \/ \E w \in Wallets \cup {None} : SessionChange(w)
  \/ MerchantATACreated

Spec == Init /\ [][Next]_vars

\* The browser's timers run: a pending timer's time passes and its callback
\* is called.
FairSpec == Spec /\ WF_vars(TimerTick) /\ WF_vars(TimerFire)

\* The component over the amounts a parent can pass.
AmountInit ==
  /\ status = "idle"
  /\ signature = None
  /\ error = NoText
  /\ timerArmed = FALSE
  /\ elapsed = 0
  /\ walletPubkey \in Wallets \cup {None}
  /\ merchantATA \in BOOLEAN
  /\ props \in AmountPropsSet
  /\ attempts = <<>>
  /\ ReadyIdle
  /\ SessionIdle
  /\ StoreIdle
  /\ CallbacksUncounted

AmountSpec == AmountInit /\ [][Next]_vars

\* =========================================================================
\*  usdcWalletCheck.ts: the checked-wallet cache in localStorage
\* =========================================================================
\* How localStorage behaves for this origin:
\*   "ok"      getItem and setItem work;
\*   "full"    getItem works, setItem throws (quota);
\*   "blocked" getItem and setItem throw (storage denied);
\*   "corrupt" the stored text does not parse; setItem works and replaces it.
StoreModes == {"ok", "full", "blocked", "corrupt"}

\* getCheckedWallets: the stored set, or an empty Set when the read or the
\* parse throws.
getCheckedWallets(store) ==
  IF store.mode \in {"ok", "full"} THEN store.wallets ELSE {}

\* Variant: the cache is never consulted.
wasWalletNeverChecked(store, wallet) == FALSE

\* wasWalletAlreadyChecked
wasWalletAlreadyChecked(store, wallet) == wallet \in getCheckedWallets(store)

\* Variant: nothing is written back.
markWalletAsCheckedSkipped(store, wallet) == store

\* Variant: the stored set is not read back before the write.
markWalletAsCheckedOverwrites(store, wallet) ==
  IF store.mode \in {"full", "blocked"} THEN store
  ELSE [mode |-> "ok", wallets |-> {wallet}]

\* markWalletAsChecked: read, add, write back; a throwing setItem is logged
\* and swallowed.
markWalletAsChecked(store, wallet) ==
  IF store.mode \in {"full", "blocked"} THEN store
  ELSE [mode |-> "ok", wallets |-> getCheckedWallets(store) \cup {wallet}]

\* =========================================================================
\*  usdcWalletCheck.ts: RPC helpers
\* =========================================================================
\* Outcomes of getAccount(connection, ata) for a wallet's own token account.
AccountOutcomes(acct) == (IF acct.ata THEN {"found"} ELSE {"missing"}) \cup {"rpcError"}

\* hasUSDCAccount: true when getAccount returned, false on any throw.
hasUSDCAccount(outcome) == outcome = "found"

\* Outcomes of connection.getTokenAccountBalance(ata).
BalanceOutcomes(acct) == (IF acct.ata THEN {"value"} ELSE {"missing"}) \cup {"rpcError"}

\* getUSDCBalance: the uiAmount, or 0 on any throw.
getUSDCBalance(outcome, acct) == IF outcome = "value" THEN acct.balance ELSE 0

\* =========================================================================
\*  usdcWalletCheck.ts: checkUSDCReadiness, one action per stretch between
\*  awaits
\* =========================================================================
NoResult == [sponsored |-> FALSE, alreadyFunded |-> "absent", balance |-> 0,
             message |-> None, error |-> None]

\* The three return values of the first-time path and the one of the
\* cache-hit path.
ResultAlreadyChecked(balance) ==
  [sponsored |-> FALSE,
   alreadyFunded |-> IF balance >= MIN_USDC_THRESHOLD THEN "true" ELSE "false",
   balance |-> balance,
   message |-> IF balance >= MIN_USDC_THRESHOLD THEN "Wallet funded with USDC"
               ELSE "Low USDC - visit faucet",
   error |-> None]

ResultNoAccount ==
  [sponsored |-> FALSE, alreadyFunded |-> "absent", balance |-> 0,
   message |-> "Get USDC from faucet", error |-> "USDC_ACCOUNT_NOT_FOUND"]

ResultFirstCheck(balance) ==
  IF balance >= MIN_USDC_THRESHOLD
  THEN [sponsored |-> FALSE, alreadyFunded |-> "true", balance |-> balance,
        message |-> "Wallet has <balance> USDC", error |-> None]
  ELSE [sponsored |-> FALSE, alreadyFunded |-> "absent", balance |-> balance,
        message |-> "Visit faucet for USDC", error |-> "NEEDS_FAUCET_VISIT"]

\* Strings handed to checkUSDCReadiness: the wallet addresses and one string
\* that is not a base58 public key.
NotAKey == "notAKey"
CallAddresses == Addresses \cup {NotAKey}

\* `new PublicKey(walletAddress)`: returns for an address, throws
\* 'Invalid public key input' otherwise.
PublicKeyThrows(addr) == addr \notin Addresses

\* How a call left checkUSDCReadiness: with a returned value or with a fault
\* handed to the caller.
Returned(result) == [returned |-> TRUE, result |-> result]
Thrown == [returned |-> FALSE, result |-> NoResult]

\* Variant: the outer catch clause hands the fault on to the caller.
OuterCatchRethrows(message) == Thrown

\* The outer catch clause: a result with error.message || 'Unknown error' and
\* no balance field (written -1 here).
OuterCatch(message) ==
  Returned([sponsored |-> FALSE, alreadyFunded |-> "absent", balance |-> -1,
            message |-> "Failed to check USDC",
            error |-> IF message = "" THEN "Unknown error" ELSE message])

NewCall(addr) ==
  [ addr       |-> addr,
    pc         |-> "start",     \* "probe" | "balance" | "done"
    hit        |-> FALSE,       \* wasWalletAlreadyChecked answered true
    probes     |-> 0,           \* hasUSDCAccount calls issued
    fetches    |-> 0,           \* getUSDCBalance calls issued
    storeAtStart |-> localStore, \* localStorage as the call found it
    after      |-> {k \in DOMAIN calls : calls[k].pc = "done"},  \* calls that had returned
    ataAtEnd   |-> FALSE,       \* the wallet had a token account when the call returned
    netFault   |-> FALSE,       \* an RPC request of this call failed
    returned   |-> FALSE,       \* the call handed a value (not a fault) to its caller
    seen       |-> FALSE,       \* WalletButton has read the returned value
    result     |-> NoResult ]

\* The call up to its first await: the cache test, then either the balance
\* fetch (cache hit), or the PublicKey construction and the account probe.  A
\* throwing constructor lands in the outer catch clause.
StartedCall(addr) ==
  LET c == NewCall(addr) IN
  IF wasWalletAlreadyChecked(localStore, addr)
  THEN [c EXCEPT !.pc = "balance", !.hit = TRUE, !.fetches = @ + 1]
  ELSE IF PublicKeyThrows(addr)
  THEN LET out == OuterCatch("Invalid public key input") IN
       [c EXCEPT !.pc = "done", !.returned = out.returned, !.result = out.result]
  ELSE [c EXCEPT !.pc = "probe", !.probes = @ + 1]

\* checkUSDCReadiness called with `addr` by any caller.
CheckStart(addr) ==
  /\ Len(calls) < MaxCalls
  /\ calls' = Append(calls, StartedCall(addr))
  /\ UNCHANGED <<payVars, localStore, chain, buttonVars, sessionVars, storeVars, statusVars, trackCallbacks>>

\* `await hasUSDCAccount(connection, wallet)` returns.
AccountProbeReturn(i, outcome) ==
  /\ calls[i].pc = "probe"
  /\ outcome \in AccountOutcomes(chain[calls[i].addr])
  /\ IF ~hasUSDCAccount(outcome)
     THEN /\ localStore' = markWalletAsChecked(localStore, calls[i].addr)
          /\ calls' = [calls EXCEPT ![i] = [@ EXCEPT !.pc = "done", !.result = ResultNoAccount,
                                                     !.returned = TRUE,
                                                     !.netFault = (outcome = "rpcError"),
                                                     !.ataAtEnd = chain[calls[i].addr].ata]]
     ELSE /\ calls' = [calls EXCEPT ![i] = [@ EXCEPT !.pc = "balance", !.fetches = @ + 1]]
          /\ UNCHANGED localStore
  /\ UNCHANGED <<payVars, chain, buttonVars, sessionVars, storeVars, statusVars, trackCallbacks>>

\* `await getUSDCBalance(walletAddress)` returns, on either path.
BalanceReturn(i, outcome) ==
  /\ calls[i].pc = "balance"
  /\ outcome \in BalanceOutcomes(chain[calls[i].addr])
  /\ LET balance == getUSDCBalance(outcome, chain[calls[i].addr]) IN
     IF calls[i].hit
     THEN /\ calls' = [calls EXCEPT ![i] = [@ EXCEPT !.pc = "done",
                                                     !.result = ResultAlreadyChecked(balance),
                                                     !.returned = TRUE,
                                                     !.netFault = (outcome = "rpcError"),
                                                     !.ataAtEnd = chain[calls[i].addr].ata]]
          /\ UNCHANGED localStore
     ELSE /\ localStore' = markWalletAsChecked(localStore, calls[i].addr)
          /\ calls' = [calls EXCEPT ![i] = [@ EXCEPT !.pc = "done",
                                                     !.result = ResultFirstCheck(balance),
                                                     !.returned = TRUE,
                                                     !.netFault = (outcome = "rpcError"),
                                                     !.ataAtEnd = chain[calls[i].addr].ata]]
  /\ UNCHANGED <<payVars, chain, buttonVars, sessionVars, storeVars, statusVars, trackCallbacks>>

\* Environment: the faucet creates the wallet's token account or tops it up.
Faucet(addr, balance) ==
  /\ balance \in Balances
  /\ balance > chain[addr].balance
  /\ chain' = [chain EXCEPT ![addr] = [ata |-> TRUE, balance |-> balance]]
  /\ UNCHANGED <<payVars, localStore, calls, buttonVars, sessionVars, storeVars, statusVars, trackCallbacks>>

AccountStates ==
  { [ata |-> FALSE, balance |-> 0], [ata |-> TRUE, balance |-> 0], [ata |-> TRUE, balance |-> 100000] }

PayIdle ==
  /\ status = "idle"
  /\ signature = None
  /\ error = NoText
  /\ timerArmed = FALSE
  /\ elapsed = 0
  /\ walletPubkey = None
  /\ merchantATA = FALSE
  /\ props = [currency |-> "USDC", disabled |-> FALSE, merchantValid |-> TRUE, amount |-> DemoPrice]
  /\ attempts = <<>>

ReadyInit ==
  /\ localStore \in [mode : StoreModes, wallets : {{}}]
  /\ chain \in [Addresses -> AccountStates]
  /\ calls = <<>>
  /\ hasCheckedUSDC = FALSE
  /\ showFaucetGuide = FALSE

ReadinessInit == PayIdle /\ ReadyInit /\ SessionIdle /\ StoreIdle /\ CallbacksUncounted

ReadinessNext ==
  \/ \E addr \in CallAddresses : CheckStart(addr)
  \/ \E i \in DOMAIN calls : \E o \in {"found", "missing", "rpcError"} : AccountProbeReturn(i, o)
  \/ \E i \in DOMAIN calls : \E o \in {"value", "missing", "rpcError"} : BalanceReturn(i, o)
  \/ \E addr \in Addresses : \E b \in Balances : Faucet(addr, b)

ReadinessSpec == ReadinessInit /\ [][ReadinessNext]_vars

\* =========================================================================
\*  WalletButton.tsx: the one caller of checkUSDCReadiness, and the page that
\*  holds it together with a PayWithUSDC button
\* =========================================================================
AdviceCodes == {"USDC_ACCOUNT_NOT_FOUND", "NEEDS_FAUCET_VISIT"}

\* The checkUSDC effect up to its await: once per connection, the check is
\* started for the connected wallet.
CheckUSDCEffect ==
  /\ walletPubkey # None
  /\ ~hasCheckedUSDC
  /\ Len(calls) < MaxPageCalls
  /\ hasCheckedUSDC' = TRUE
  /\ calls' = Append(calls, StartedCall(walletPubkey))
  /\ UNCHANGED <<payVars, localStore, chain, showFaucetGuide, sessionVars, storeVars, statusVars, trackCallbacks>>

\* Variant: a result with an advice code puts the payment button in error.
CheckUSDCResultAborts(i) ==
  /\ calls[i].pc = "done"
  /\ ~calls[i].seen
  /\ calls' = [calls EXCEPT ![i].seen = TRUE]
  /\ showFaucetGuide' = (showFaucetGuide \/ calls[i].result.error \in AdviceCodes)
  /\ status' = IF calls[i].result.error \in AdviceCodes THEN "error" ELSE status
  /\ UNCHANGED <<signature, error, timerArmed, elapsed, walletPubkey, merchantATA, props, attempts,
                 localStore, chain, hasCheckedUSDC, sessionVars, storeVars, statusVars, trackCallbacks>>

\* The effect after its await: the faucet guide is opened when the result
\* carries one of the two advice codes; nothing else is done with the result.
CheckUSDCResult(i) ==
  /\ calls[i].pc = "done"
  /\ ~calls[i].seen
  /\ calls' = [calls EXCEPT ![i].seen = TRUE]
  /\ showFaucetGuide' = (showFaucetGuide \/ calls[i].result.error \in AdviceCodes)
  /\ UNCHANGED <<payVars, localStore, chain, hasCheckedUSDC, sessionVars, storeVars, statusVars, trackCallbacks>>

\* The effect on [isConnected]: the flag is reset when the wallet disconnects.
ResetCheckFlag ==
  /\ walletPubkey = None
  /\ hasCheckedUSDC
  /\ hasCheckedUSDC' = FALSE
  /\ UNCHANGED <<payVars, readyVars, showFaucetGuide, sessionVars, storeVars, statusVars, trackCallbacks>>

\* The user closes the faucet guide.
CloseFaucetGuide ==
  /\ showFaucetGuide
  /\ showFaucetGuide' = FALSE
  /\ UNCHANGED <<payVars, readyVars, hasCheckedUSDC, sessionVars, storeVars, statusVars, trackCallbacks>>

\* The store page: one USDC product button next to the wallet button.
AppInit ==
  /\ PayInit
  /\ props = [currency |-> "USDC", disabled |-> FALSE, merchantValid |-> TRUE, amount |-> DemoPrice]
  /\ merchantATA = TRUE
  /\ localStore = [mode |-> "ok", wallets |-> {}]
  /\ chain \in {c \in [Addresses -> AccountStates] : c["walletB"] = [ata |-> FALSE, balance |-> 0]}
  /\ calls = <<>>
  /\ hasCheckedUSDC = FALSE
  /\ showFaucetGuide = FALSE
  /\ SessionIdle
  /\ StoreIdle
  /\ CallbacksUncounted

AppNext ==
  \/ Len(attempts) < MaxPageAttempts /\ Click
  \/ \E i \in DOMAIN attempts : \E w \in Wallets : ConnectResolve(i, w)
  \/ \E i \in DOMAIN attempts : ConnectReject(i, NoMessage)
  \/ \E i \in DOMAIN attempts : ProbeDone(i, "found")
  \/ \E i \in DOMAIN attempts : SubmitResolve(i, "sigA", "returns")
  \/ \E i \in DOMAIN attempts : SubmitReject(i, [cause |-> "declined", err |-> Err(MsgUserRejected)])
  \/ TimerTick
  \/ TimerFire
  \/ \E w \in Wallets \cup {None} : SessionChange(w)
  \/ CheckUSDCEffect
  \/ \E i \in DOMAIN calls : \E o \in {"found", "missing", "rpcError"} : AccountProbeReturn(i, o)
  \/ \E i \in DOMAIN calls : \E o \in {"value", "missing", "rpcError"} : BalanceReturn(i, o)
  \/ \E i \in DOMAIN calls : CheckUSDCResult(i)
  \/ ResetCheckFlag
  \/ CloseFaucetGuide

AppSpec == AppInit /\ [][AppNext]_vars

\* =========================================================================
\*  Properties of the payment component
\* =========================================================================
Issued(a) == a.submits > 0
LastAttempt == attempts[Len(attempts)]
InFlightAttempts == {i \in DOMAIN attempts : InFlight(attempts[i])}

\* C1: a click starts an attempt only when the status is idle, every attempt
\* issues at most one signAndSendTransaction call, and at most one attempt
\* (hence at most one submit call) is in flight at any time.
C1_OneAttemptInFlight ==
  /\ \A i \in DOMAIN attempts :
       /\ attempts[i].startedFrom = "idle"
       /\ attempts[i].submits <= 1
  /\ Cardinality(InFlightAttempts) <= 1
  /\ Cardinality({i \in DOMAIN attempts : attempts[i].pc = "submit"}) <= 1

C1_Witness ==
  /\ Len(attempts) = 2
  /\ attempts[1].pc = "done"
  /\ attempts[1].submits = 1
  /\ attempts[2].pc = "submit"

\* C2: an attempt that started without a wallet and whose connect call
\* resolved with a wallet does not end at the connect step: it goes on to the
\* submit call (stated as in the claim; the handler contradicts it).
C2_ConnectSuccessAdvances ==
  \A i \in DOMAIN attempts :
    (attempts[i].wallet = None /\ attempts[i].connected # None)
      => attempts[i].outcome # "noWallet"

\* C3: once the submit call of an attempt has resolved with a signature, the
\* status is success with exactly that signature, until the auto-reset has
\* returned the component to idle (stated as in the claim; a throwing
\* onSuccess contradicts it).
C3_ResolvedIsSuccess ==
  \A i \in DOMAIN attempts :
    (i = Len(attempts) /\ attempts[i].outcome = "resolved")
      => \/ status = "success" /\ signature = attempts[i].sig
         \/ status = "idle"

\* C4: when the submit call rejects the status becomes error and the handler
\* returns; a finished attempt issues no further connect or submit call.
C4_RejectionIsTerminal ==
  [][\A i \in DOMAIN attempts :
       /\ (attempts[i].pc = "submit" /\ attempts'[i].outcome = "rejected")
            => (status' = "error" /\ attempts'[i].pc = "done")
       /\ attempts[i].pc = "done"
            => /\ attempts'[i].pc = "done"
               /\ attempts'[i].connects = attempts[i].connects
               /\ attempts'[i].submits = attempts[i].submits]_vars

C4_Witness ==
  /\ Len(attempts) = 2
  /\ attempts[1].outcome = "rejected"
  /\ attempts[1].submits = 1
  /\ attempts[2].pc = "submit"

\* C5: a terminal status is left only by the auto-reset, exactly when the
\* 5-second window has elapsed, to idle with the signature and the error text
\* both cleared; and with the browser's timers running it always is left.
C5_AutoReset ==
  /\ [][(status \in Terminal /\ status' # status)
          => /\ elapsed = RESET_WINDOW
             /\ status' = "idle"
             /\ signature' = None
             /\ error' = NoText]_vars
  /\ [](status \in Terminal => <>(status = "idle" /\ signature = None /\ error = NoText))

\* The auto-reset has run after a successful attempt.
C5_Witness ==
  /\ Len(attempts) = 1
  /\ attempts[1].outcome = "resolved"
  /\ attempts[1].sig # None
  /\ status = "idle"
  /\ signature = None
  /\ ~timerArmed

\* C6: every instruction set handed to the submit call is non-empty, its last
\* instruction is the transfer, and an account creation stands before it.
C6_TransferLast ==
  \A i \in DOMAIN attempts :
    Issued(attempts[i]) =>
      LET ins == attempts[i].request.instructions IN
      /\ Len(ins) >= 1
      /\ ins[Len(ins)].type = (IF props.currency = "USDC" THEN "tokenTransfer" ELSE "solTransfer")
      /\ \A k \in 1..(Len(ins) - 1) : ins[k].type = "createATA"

C6_Witness ==
  \E i \in DOMAIN attempts :
    /\ Issued(attempts[i])
    /\ Len(attempts[i].request.instructions) = 2
    /\ attempts[i].request.instructions[1].type = "createATA"

\* C7: the size of the instruction set follows the asset kind and whether the
\* recipient's token account exists on chain when probed (stated as in the
\* claim; a failed probe contradicts it).
C7_SizeFollowsChain ==
  \A i \in DOMAIN attempts :
    Issued(attempts[i]) =>
      LET ins == attempts[i].request.instructions IN
      IF props.currency = "USDC"
      THEN Len(ins) = (IF attempts[i].ataAtProbe THEN 1 ELSE 2)
      ELSE Len(ins) = 1 /\ attempts[i].probe = None

\* C8: while the error of an attempt whose submit call was rejected for
\* insufficient balance is shown, the text is the fixed one (stated as in the
\* claim; the substring test contradicts it).
C8_BalanceRejectionText ==
  (Len(attempts) > 0 /\ LastAttempt.outcome = "rejected" /\ LastAttempt.cause = "balance"
     /\ status # "idle")
    => (status = "error" /\ error = Text(TextInsufficient))

\* =========================================================================
\*  Properties of the readiness checker
\* =========================================================================
Done(c) == c.pc = "done"
\* The address was readable in the checked-wallet cache when the call started.
CachedAtStart(c) == c.storeAtStart.mode \in {"ok", "full"} /\ c.addr \in c.storeAtStart.wallets

\* C9: every completed call for a wallet that has no token account returns
\* balance 0 with the code USDC_ACCOUNT_NOT_FOUND, on the first-time path and on
\* the cache-hit path alike (stated as in the claim; the cache-hit path
\* contradicts it).
C9_NoAccountAlwaysReported ==
  \A i \in DOMAIN calls :
    (Done(calls[i]) /\ calls[i].addr \in Addresses /\ ~calls[i].ataAtEnd)
      => /\ calls[i].result.error = "USDC_ACCOUNT_NOT_FOUND"
         /\ calls[i].result.balance = 0

\* C10 as claimed: over a sequence of calls for one address, each started
\* after the one before it returned, only the first performs the
\* account-existence probe.
C10_ProbeOnlyByFirstCall ==
  \A i, j \in DOMAIN calls :
    (i \in calls[j].after /\ calls[i].addr = calls[j].addr /\ calls[i].addr \in Addresses)
      => calls[j].probes = 0

\* C10 as amended: a call probes exactly once when it does not find its
\* address readable in the cache and not at all when it does; a cache-hit call
\* performs one balance fetch; and a completed call leaves its address in the
\* cache whenever localStorage takes the write.
C10_ProbeIffNotCached ==
  \A i \in DOMAIN calls :
    calls[i].addr \in Addresses =>
    /\ calls[i].probes = (IF CachedAtStart(calls[i]) THEN 0 ELSE 1)
    /\ calls[i].fetches <= 1
    /\ CachedAtStart(calls[i]) => calls[i].fetches = 1
    /\ (Done(calls[i]) /\ localStore.mode = "ok") => calls[i].addr \in localStore.wallets

C10_Witness ==
  \E i, j \in DOMAIN calls :
    /\ i \in calls[j].after
    /\ calls[i].addr = calls[j].addr
    /\ Done(calls[i]) /\ calls[i].probes = 1
    /\ Done(calls[j]) /\ calls[j].probes = 0 /\ calls[j].fetches = 1

\* A storage operation of the call threw: the cache read when the call started,
\* or the write-back a first-time call ends with.
StoreFault(c) ==
  \/ c.storeAtStart.mode \in {"blocked", "corrupt"}
  \/ ~c.hit /\ Done(c) /\ c.addr \in Addresses /\ localStore.mode \in {"full", "blocked"}

\* C11: checkUSDCReadiness never hands a fault to its caller: whatever the
\* account probe, the balance fetch, localStorage and the PublicKey
\* constructor did, a finished call has returned a value carrying a message,
\* and a call that has not finished is waiting on exactly one RPC request.
C11_AlwaysReturnsResult ==
  \A i \in DOMAIN calls :
    /\ Done(calls[i]) => (calls[i].returned /\ calls[i].result.message # None)
    /\ ~Done(calls[i]) => (calls[i].pc \in {"probe", "balance"} /\ ~calls[i].returned)

\* One call met an RPC failure and a failing localStorage, another a throwing
\* PublicKey constructor; both returned.
C11_Witness ==
  \E i, j \in DOMAIN calls :
    /\ Done(calls[i]) /\ calls[i].netFault /\ StoreFault(calls[i]) /\ calls[i].returned
    /\ Done(calls[j]) /\ PublicKeyThrows(calls[j].addr) /\ calls[j].returned
    /\ calls[j].result.message = "Failed to check USDC"

\* C12: a call during which an RPC request failed returns a message and no
\* advice code: neither USDC_ACCOUNT_NOT_FOUND nor NEEDS_FAUCET_VISIT (stated
\* as in the claim; the helpers' catch-all clauses contradict it).
C12_NetworkFaultNoAdvice ==
  \A i \in DOMAIN calls :
    (Done(calls[i]) /\ calls[i].netFault)
      => /\ calls[i].result.error \notin {"USDC_ACCOUNT_NOT_FOUND", "NEEDS_FAUCET_VISIT"}
         /\ calls[i].result.message # None

\* =========================================================================
\*  Properties of the page: payment button and readiness check together
\* =========================================================================
\* A finished readiness call returned this advice.
CheckReturned(code) == \E i \in DOMAIN calls : Done(calls[i]) /\ calls[i].result.error = code

C14_PositiveAmount ==
  \A i \in DOMAIN attempts :
    Issued(attempts[i]) =>
      LET ins == attempts[i].request.instructions IN
      /\ props.amount > 0
      /\ ins[Len(ins)].amount > 0

\* The successions of statuses the state machine of the specification allows.
StatusOrder ==
  { <<"idle", "connecting">>, <<"connecting", "authenticating">>,
    <<"authenticating", "processing">>, <<"processing", "success">>,
    <<"processing", "error">>, <<"success", "idle">>, <<"error", "idle">> }

\* C15: the status changes only along idle, connecting, authenticating,
\* processing, then success or error (and back to idle); it is processing
\* while a submit call is in flight; and success or error is entered only from
\* processing, after the attempt issued its submit call (stated as in the
\* claim; the handler never sets processing).
C15_OrderThroughProcessing ==
  [][/\ status' # status => <<status, status'>> \in StatusOrder
     /\ \A i \in DOMAIN attempts' : attempts'[i].pc = "submit" => status' = "processing"
     /\ (status' \in Terminal /\ status' # status)
          => (status = "processing" /\ Len(attempts) > 0 /\ Issued(LastAttempt))]_vars

\* C16: an error text is held only while the status is error and is the one
\* set by the catch block of the most recent run of handlePayment: every step
\* that sets a text is the step that ends the last attempt in error, every
\* step that starts an attempt leaves no text of an earlier attempt behind,
\* and in every other status the text is absent.
C16_ErrorOnlyInError ==
  [][/\ error'.present
          => /\ status' = "error"
             /\ Len(attempts') > 0
             /\ attempts'[Len(attempts')].pc = "done"
     /\ (error'.present /\ error' # error)
          => \/ Len(attempts') > Len(attempts)
             \/ attempts[Len(attempts)].pc # "done"
     /\ Len(attempts') > Len(attempts)
          => \/ ~error'.present
             \/ error' = CatchMessage(Err(TextInvalidKey))
     /\ status' \in {"idle", "connecting", "authenticating", "processing", "success"}
          => error' = NoText]_vars

\* The second attempt's error is shown; the first attempt's, set and cleared
\* before, was a different one.
C16_Witness ==
  /\ Len(attempts) = 2
  /\ attempts[1].outcome = "connectFailed"
  /\ attempts[2].outcome = "rejected"
  /\ attempts[2].cause = "balance"
  /\ status = "error"
  /\ error = Text(TextInsufficient)

\* C17: a signature is held exactly while the status is success (stated as in
\* the claim; a throwing onSuccess contradicts it).
C17_SignatureIffSuccess ==
  (signature # None) <=> (status = "success")

\* C18: an attempt started with a wallet address present never calls the
\* SDK's connect, at any point of its run.
C18_NoConnectWhenConnected ==
  \A i \in DOMAIN attempts :
    attempts[i].wallet # None
      => /\ attempts[i].connects = 0
         /\ attempts[i].pc # "connect"
         /\ attempts[i].connected = None

\* An attempt started without a wallet called connect; the next one, started
\* with the wallet present, ran to its submit call and on to the end without.
C18_Witness ==
  /\ Len(attempts) = 2
  /\ attempts[1].wallet = None
  /\ attempts[1].connects = 1
  /\ attempts[2].wallet # None
  /\ attempts[2].submits = 1
  /\ attempts[2].outcome = "resolved"
  /\ attempts[2].connects = 0

C20_BuildFaultEndsAttempt ==
  \A i \in DOMAIN attempts :
    /\ attempts[i].outcome = "buildFailed" => attempts[i].submits = 0
    /\ attempts[i].probe = "rpcError"
         => /\ attempts[i].pc = "done"
            /\ attempts[i].outcome = "buildFailed"
            /\ attempts[i].submits = 0

\* C21: with the payment component as the only actor, every attempt that has
\* built instructions and issued its submit call has before that invoked
\* checkUSDCReadiness for its wallet (stated as in the claim; the handler
\* never invokes it).
C21_ReadinessCheckedBeforeBuild ==
  \A i \in DOMAIN attempts :
    Issued(attempts[i])
      => \E k \in DOMAIN calls : calls[k].addr = attempts[i].wallet

\* C22: the feeToken of every submit call names the asset of the payment:
\* USDC for a USDC payment, SOL for a SOL payment (stated as in the claim; the
\* handler passes a fixed feeToken).
C22_FeeTokenIsPaymentAsset ==
  \A i \in DOMAIN attempts :
    Issued(attempts[i])
      => attempts[i].request.feeToken = (IF props.currency = "USDC" THEN "USDC" ELSE "SOL")

\* C23: the base-unit value of every submitted transfer, taken back to coins
\* (exponent 6 for USDC, 9 for SOL), is at most the amount prop and short of
\* it by less than one base unit (stated as in the claim; the floor of a
\* double product contradicts it).
C23_TruncationWithinOneUnit ==
  \A i \in DOMAIN attempts :
    Issued(attempts[i]) =>
      LET ins == attempts[i].request.instructions
          units == ins[Len(ins)].amount IN
      IF props.currency = "USDC"
      THEN LET unit == AmountScale \div 10^USDC_DECIMALS IN
           /\ units * unit <= props.amount
           /\ props.amount - units * unit < unit
      ELSE LET perStep == LAMPORTS_PER_SOL \div AmountScale IN
           /\ units <= props.amount * perStep
           /\ props.amount * perStep - units < 1

\* C24: every finished call that fetched the balance, on the first-time path
\* or on the cache-hit path, classifies it the same way: funded exactly when
\* the balance is at least MIN_USDC_THRESHOLD, the code NEEDS_FAUCET_VISIT
\* exactly when the wallet has a token account and the balance is below it,
\* and no code when it is at or above (stated as in the claim; the cache-hit
\* path contradicts it).
C24_SameClassificationOnBothPaths ==
  \A i \in DOMAIN calls :
    (Done(calls[i]) /\ calls[i].addr \in Addresses /\ calls[i].fetches = 1) =>
      LET r == calls[i].result IN
      /\ (r.alreadyFunded = "true") <=> (r.balance >= MIN_USDC_THRESHOLD)
      /\ (r.error = "NEEDS_FAUCET_VISIT")
           <=> (calls[i].ataAtEnd /\ r.balance < MIN_USDC_THRESHOLD)
      /\ r.balance >= MIN_USDC_THRESHOLD => r.error = None

\* The call took the branch for a probe that reported no token account.
NoAccountBranch(c) ==
  Done(c) /\ c.addr \in Addresses /\ ~c.hit /\ c.result.error = "USDC_ACCOUNT_NOT_FOUND"

\* C25 as claimed: a first-time call whose probe reported no token account
\* has issued no balance fetch and has left its address in the checked-wallet
\* cache.
C25_NoAccountRecordedNoFetch ==
  \A i \in DOMAIN calls :
    NoAccountBranch(calls[i])
      => /\ calls[i].fetches = 0
         /\ wasWalletAlreadyChecked(localStore, calls[i].addr)

\* C25 as amended: such a call has probed once, has issued no balance fetch,
\* has returned balance 0 with the code USDC_ACCOUNT_NOT_FOUND, and has left
\* its address in the cache whenever localStorage took the write; and a
\* first-time call that is fetching the balance is not on that branch.
C25_NoAccountNoFetch ==
  \A i \in DOMAIN calls :
    /\ NoAccountBranch(calls[i])
         => /\ calls[i].probes = 1
            /\ calls[i].fetches = 0
            /\ calls[i].result = ResultNoAccount
            /\ localStore.mode \notin {"full", "blocked"}
                 => wasWalletAlreadyChecked(localStore, calls[i].addr)
    /\ (~calls[i].hit /\ calls[i].fetches = 1)
         => calls[i].result.error # "USDC_ACCOUNT_NOT_FOUND"

\* A first-time call for a wallet without a token account has returned on
\* that branch and is in the cache.
C25_Witness ==
  \E i \in DOMAIN calls :
    /\ NoAccountBranch(calls[i])
    /\ ~calls[i].ataAtEnd
    /\ ~calls[i].netFault
    /\ calls[i].fetches = 0
    /\ calls[i].addr \in localStore.wallets

\* The addresses of the first-time calls that have returned.
FirstTimeChecked(cs) ==
  {cs[k].addr : k \in {n \in DOMAIN cs : Done(cs[n]) /\ ~cs[n].hit /\ cs[n].addr \in Addresses}}
\* The two calls ran at the same time: neither had returned when the other
\* started.
Overlapping(i, j) == i # j /\ i \notin calls[j].after /\ j \notin calls[i].after

\* C26: the checked-wallet cache only grows.  No step removes an address from
\* the readable cache; and whenever localStorage takes writes, the cache holds
\* exactly the addresses of the first-time calls that have returned, however
\* those calls overlapped: none is lost to a call for another address, and two
\* calls for one address leave what one leaves.
C26_CacheOnlyGrows ==
  [][/\ getCheckedWallets(localStore) \subseteq getCheckedWallets(localStore')
     /\ localStore'.mode = "ok" => localStore'.wallets = FirstTimeChecked(calls')
     /\ localStore'.mode \in {"ok", "corrupt"} => localStore.mode \in {"ok", "corrupt"}]_vars

\* Two overlapping first-time calls for different addresses have returned and
\* both addresses are in the cache.
C26_Witness ==
  \E i, j \in DOMAIN calls :
    /\ Overlapping(i, j)
    /\ calls[i].addr # calls[j].addr
    /\ Done(calls[i]) /\ ~calls[i].hit
    /\ Done(calls[j]) /\ ~calls[j].hit
    /\ localStore.wallets = {calls[i].addr, calls[j].addr}

\* The texts the claim allows for a caught value that is not balance-related:
\* the account guidance for a message marking a missing token account, the
\* default for a value without a message, the message itself otherwise (an
\* empty message may be shown as it is or as the default).
ClaimedTexts(err) ==
  IF err.kind = "error" /\ Includes(err.message, <<"TokenAccountNotFound">>)
  THEN {Text(TextAccountGuidance)}
  ELSE IF err.kind # "error" THEN {Text(TextPaymentFailed)}
  ELSE IF err.message = MsgEmpty THEN {Text(MsgEmpty), Text(TextPaymentFailed)}
  ELSE {Text(err.message)}

\* C27: the text shown after a rejected connect or submit call is the one the
\* rule above gives for the caught value: guidance first, the message verbatim
\* for a failure that is not balance-related, 'Payment failed' for a failure
\* without a message (stated as in the claim; a caught undefined contradicts
\* it).
C27_ErrorTextIsFixedFunction ==
  [][/\ \A i \in DOMAIN attempts : \A rej \in SubmitRejections :
          (SubmitReject(i, rej) /\ rej.cause # "balance")
            => (status' = "error" /\ error' \in ClaimedTexts(rej.err))
     /\ \A i \in DOMAIN attempts : \A err \in ConnectRejections :
          ConnectReject(i, err) => (status' = "error" /\ error' \in ClaimedTexts(err))]_vars

\* C28: nothing is built or submitted for an absent sender.  An attempt whose
\* handler holds no wallet address has probed nothing, built nothing and
\* issued no submit call, and once past the connect step it has ended in
\* error; and every instruction handed to the submit call names a wallet
\* address as its sender.
C28_NoBuildWithoutWallet ==
  \A i \in DOMAIN attempts :
    /\ attempts[i].wallet = None
         => /\ attempts[i].probe = None
            /\ attempts[i].submits = 0
            /\ attempts[i].request = NoRequest
            /\ attempts[i].pc \in {"connect", "done"}
            /\ attempts[i].pc = "done" => attempts[i].outcome \in {"noWallet", "connectFailed"}
            /\ (i = Len(attempts) /\ attempts[i].pc = "done" /\ ~timerArmed) => status = "idle"
    /\ \A k \in DOMAIN attempts[i].request.instructions :
         attempts[i].request.instructions[k].from \in Wallets

\* The connect call of an attempt started without a wallet has resolved, the
\* attempt has ended in error with the connection text and without a submit
\* call.
C28_Witness ==
  \E i \in DOMAIN attempts :
    /\ attempts[i].wallet = None
    /\ attempts[i].connected # None
    /\ attempts[i].outcome = "noWallet"
    /\ attempts[i].submits = 0
    /\ i = Len(attempts)
    /\ status = "error"
    /\ error = Text(TextConnectionFailed)

MaxConnectCalls == 3

\* A call of the SDK's connect: issued by the restore effect ("auto") or by a
\* click on the connect button ("user").
ConnectCall(by) == [by |-> by, pc |-> "pending"]

\* restoreSession: `hasSession && !isConnected && !wallet`, for the flag the
\* effect reads and the session values of the render it belongs to.
RestoreIssuesConnect(hasSession, connected, w) ==
  hasSession /\ ~connected /\ w = None

\* Variant: the tracking effect stores the flag and never removes it.
TrackedFlagNeverRemoved(connected, w) == sessionFlag \/ (connected /\ w # None)

\* The tracking effect: the flag is stored when `isConnected && wallet`, and
\* removed otherwise.
TrackedFlag(connected, w) == connected /\ w # None

\* Both effects of a render with session values (connected, w), in the order
\* the component declares them: restoreSession up to its await, then the
\* tracking effect.  cs is the list of connect calls before the effects.
RunEffects(cs, connected, w) ==
  LET issue == RestoreIssuesConnect(sessionFlag, connected, w) IN
  /\ issue => Len(cs) < MaxConnectCalls
  /\ connectCalls' = IF issue THEN Append(cs, ConnectCall("auto")) ELSE cs
  /\ sessionFlag' = TrackedFlag(connected, w)

\* The first render of the page: both effects run.
Mount ==
  /\ ~mounted
  /\ mounted' = TRUE
  /\ RunEffects(connectCalls, isConnected, walletObj)
  /\ UNCHANGED <<payVars, readyVars, buttonVars, isConnected, walletObj, storeVars, statusVars, trackCallbacks>>

\* WalletButton.handleConnect: the connect button is shown while the wallet is
\* not connected and no connect call is pending.
UserConnect ==
  /\ mounted
  /\ ~(isConnected /\ walletObj # None)
  /\ \A k \in DOMAIN connectCalls : connectCalls[k].pc # "pending"
  /\ Len(connectCalls) < MaxConnectCalls
  /\ connectCalls' = Append(connectCalls, ConnectCall("user"))
  /\ UNCHANGED <<payVars, readyVars, buttonVars, mounted, sessionFlag, isConnected, walletObj, storeVars, statusVars, trackCallbacks>>

\* A connect call resolves: the SDK publishes the session and the render that
\* follows runs both effects.
SdkConnectResolve(k, w) ==
  /\ mounted
  /\ connectCalls[k].pc = "pending"
  /\ isConnected' = TRUE
  /\ walletObj' = w
  /\ RunEffects([connectCalls EXCEPT ![k].pc = "resolved"], TRUE, w)
  /\ UNCHANGED <<payVars, readyVars, buttonVars, mounted, storeVars, statusVars, trackCallbacks>>

\* A connect call rejects: the catch block of restoreSession removes the flag;
\* the catch block of handleConnect leaves it alone.
SdkConnectReject(k) ==
  /\ mounted
  /\ connectCalls[k].pc = "pending"
  /\ connectCalls' = [connectCalls EXCEPT ![k].pc = "rejected"]
  /\ sessionFlag' = IF connectCalls[k].by = "auto" THEN FALSE ELSE sessionFlag
  /\ UNCHANGED <<payVars, readyVars, buttonVars, mounted, isConnected, walletObj, storeVars, statusVars, trackCallbacks>>

\* The session ends (the disconnect button, or the SDK dropping it).  The SDK
\* publishes both fields in one render ("together") or isConnected first
\* ("connectedFirst"); the render runs both effects.
SessionEnds(how) ==
  /\ mounted
  /\ isConnected
  /\ walletObj # None
  /\ isConnected' = FALSE
  /\ walletObj' = IF how = "together" THEN None ELSE walletObj
  /\ RunEffects(connectCalls, FALSE, walletObj')
  /\ UNCHANGED <<payVars, readyVars, buttonVars, mounted, storeVars, statusVars, trackCallbacks>>

\* The second render of a session that ended in two steps.
WalletCleared ==
  /\ mounted
  /\ ~isConnected
  /\ walletObj # None
  /\ walletObj' = None
  /\ RunEffects(connectCalls, FALSE, None)
  /\ UNCHANGED <<payVars, readyVars, buttonVars, mounted, isConnected, storeVars, statusVars, trackCallbacks>>

\* A page load: the flag of an earlier visit may be stored, and the SDK may
\* have a session of its own already.
SessionInit ==
  /\ PayIdle
  /\ ReadyIdle
  /\ mounted = FALSE
  /\ sessionFlag \in BOOLEAN
  /\ isConnected \in BOOLEAN
  /\ walletObj \in (IF isConnected THEN Wallets ELSE {None})
  /\ connectCalls = <<>>
  /\ StoreIdle
  /\ CallbacksUncounted

SessionNext ==
  \/ Mount
  \/ UserConnect
  \/ \E k \in DOMAIN connectCalls : \E w \in Wallets : SdkConnectResolve(k, w)
  \/ \E k \in DOMAIN connectCalls : SdkConnectReject(k)
  \/ \E how \in {"together", "connectedFirst"} : SessionEnds(how)
  \/ WalletCleared

SessionSpec == SessionInit /\ [][SessionNext]_vars

\* The automatic connect calls issued so far in this page load.
AutoConnects(cs) == Cardinality({k \in DOMAIN cs : cs[k].by = "auto"})

\* C30: an automatic connect is issued only with the flag stored and no
\* session active, at most once per page load, and the wallet is treated as
\* connected only once a connect call has resolved, never because of the flag.
C30_AutoConnectOncePerLoad ==
  [][/\ AutoConnects(connectCalls') > AutoConnects(connectCalls)
          => (sessionFlag /\ ~isConnected' /\ walletObj' = None)
     /\ AutoConnects(connectCalls') <= 1
     /\ (isConnected' /\ ~isConnected)
          => \E k \in DOMAIN connectCalls :
               connectCalls[k].pc = "pending" /\ connectCalls'[k].pc = "resolved"]_vars

\* No connect call of this page load is awaiting its outcome.
NoConnectInFlight(cs) == \A k \in DOMAIN cs : cs[k].pc # "pending"

\* C31: the flag mirrors the session.  After every step that leaves the
\* wrapper mounted with no connect call in flight, the flag is stored exactly
\* when the SDK reports a connected session with a wallet; it is absent after
\* a rejected restoration and after the end of a session; and a page that
\* mounts without the flag issues no connect call.
C31_FlagMirrorsSession ==
  [][/\ (mounted' /\ NoConnectInFlight(connectCalls'))
          => (sessionFlag' <=> (isConnected' /\ walletObj' # None))
     /\ (\E k \in DOMAIN connectCalls :
           connectCalls[k].by = "auto" /\ connectCalls[k].pc = "pending"
             /\ connectCalls'[k].pc = "rejected") => ~sessionFlag'
     /\ (isConnected /\ ~isConnected') => ~sessionFlag'
     /\ (~mounted /\ mounted' /\ ~sessionFlag) => connectCalls' = connectCalls]_vars

\* A restoration was rejected and, later, a session obtained by the user
\* ended: no connect call is in flight and the flag is absent.
C31_Witness ==
  /\ mounted
  /\ Len(connectCalls) = 2
  /\ connectCalls[1] = [by |-> "auto", pc |-> "rejected"]
  /\ connectCalls[2] = [by |-> "user", pc |-> "resolved"]
  /\ ~isConnected
  /\ walletObj # None
  /\ ~sessionFlag

\* =========================================================================
\*  WalletButton.tsx: the renders of the button and the effects they run
\* =========================================================================
MaxButtonCalls == 2

\* Variant: the checkUSDC effect without its `!hasCheckedUSDC.current` test.
CheckUSDCStartsUnguarded(connected, checked) == connected

\* The test of the checkUSDC effect:
\* `isConnected && smartWalletPubkey && !hasCheckedUSDC.current`.
CheckUSDCStarts(connected, checked) == connected /\ ~checked

\* hasCheckedUSDC.current after the effects of a render: set by the checkUSDC
\* effect when it starts the check, cleared by the reset effect when the
\* wallet is not connected.
FlagAfterEffects(connected, checked) ==
  IF ~connected THEN FALSE ELSE (checked \/ CheckUSDCStarts(connected, checked))

\* A render of WalletButton in which the SDK reports wallet `w` (None: not
\* connected), followed by its effects in declaration order: the checkUSDC
\* effect up to its await, then the reset effect.  `w` may be the value of
\* the render before: the effects run again whenever a dependency is a new
\* object.
ButtonRender(w) ==
  LET connected == w # None
      start == CheckUSDCStarts(connected, hasCheckedUSDC) IN
  /\ start => Len(calls) < MaxButtonCalls
  /\ walletPubkey' = w
  /\ calls' = IF start THEN Append(calls, StartedCall(w)) ELSE calls
  /\ hasCheckedUSDC' = FlagAfterEffects(connected, hasCheckedUSDC)
  /\ UNCHANGED <<status, signature, error, timerArmed, elapsed, merchantATA, props, attempts,
                 localStore, chain, showFaucetGuide, sessionVars, storeVars, statusVars, trackCallbacks>>

\* The button before any wallet is connected; two wallets, one without a
\* token account and one funded.
ButtonInit ==
  /\ PayIdle
  /\ localStore = [mode |-> "ok", wallets |-> {}]
  /\ chain \in { c \in [Addresses -> AccountStates] :
                   /\ c["walletA"].balance = 0
                   /\ c["walletB"] = [ata |-> TRUE, balance |-> 100000] }
  /\ calls = <<>>
  /\ hasCheckedUSDC = FALSE
  /\ showFaucetGuide = FALSE
  /\ SessionIdle
  /\ StoreIdle
  /\ CallbacksUncounted

ButtonNext ==
  \/ \E w \in Addresses \cup {None} : ButtonRender(w)
  \/ \E i \in DOMAIN calls : \E o \in {"found", "missing"} : AccountProbeReturn(i, o)
  \/ \E i \in DOMAIN calls : BalanceReturn(i, "value")
  \/ \E i \in DOMAIN calls : CheckUSDCResult(i)
  \/ CloseFaucetGuide

ButtonSpec == ButtonInit /\ [][ButtonNext]_vars

\* C32: one readiness check per connection.  A check is started only in the
\* render in which the wallet becomes connected, for the wallet that
\* connected, and every such render starts one: so no second check is started
\* until the wallet has disconnected, however often the button renders, and a
\* reconnect after a disconnect starts the check again.
C32_OneCheckPerConnection ==
  [][/\ Len(calls') > Len(calls)
          => /\ walletPubkey = None
             /\ walletPubkey' # None
             /\ Len(calls') = Len(calls) + 1
             /\ calls'[Len(calls')].addr = walletPubkey'
     /\ (walletPubkey = None /\ walletPubkey' # None) => Len(calls') = Len(calls) + 1
     /\ hasCheckedUSDC' <=> walletPubkey' # None]_vars

\* The wallet is connected for the second time and the second check is under
\* way, the first having returned.
C32_Witness ==
  /\ Len(calls) = 2
  /\ calls[1].pc = "done"
  /\ calls[1].addr = "walletA"
  /\ calls[2].addr = "walletA"
  /\ calls[2].pc # "done"
  /\ walletPubkey = "walletA"
  /\ hasCheckedUSDC

\* =========================================================================
\*  The payment component with external calls that always come back
\* =========================================================================
\* One value per kind of outcome of each external call: a rejection with a
\* message, one without, and one with nothing at all.
LiveRejections ==
  { [cause |-> "declined", err |-> Err(MsgUserRejected)],
    [cause |-> "other", err |-> Undefined] }

LiveNext ==
  \/ Click
  \/ \E i \in DOMAIN attempts : \E w \in Wallets : ConnectResolve(i, w)
  \/ \E i \in DOMAIN attempts : ConnectReject(i, NoMessage)
  \/ \E i \in DOMAIN attempts : \E o \in {"found", "rpcError"} : ProbeDone(i, o)
  \/ \E i \in DOMAIN attempts : \E cb \in {"returns", "throws"} : SubmitResolve(i, "sigA", cb)
  \/ \E i \in DOMAIN attempts : \E rej \in LiveRejections : SubmitReject(i, rej)
  \/ TimerTick
  \/ TimerFire
  \/ \E w \in Wallets \cup {None} : SessionChange(w)

\* The promise of a connect call, of the recipient-account probe and of the
\* submit call is settled at some point, and the browser's timers run.
ResolvingSpec ==
  /\ Init
  /\ [][LiveNext]_vars
  /\ WF_vars(TimerTick)
  /\ WF_vars(TimerFire)
  /\ WF_vars(\E i \in DOMAIN attempts :
               \/ \E w \in Wallets : ConnectResolve(i, w)
               \/ ConnectReject(i, NoMessage))
  /\ WF_vars(\E i \in DOMAIN attempts : \E o \in {"found", "rpcError"} : ProbeDone(i, o))
  /\ WF_vars(\E i \in DOMAIN attempts :
               \/ \E cb \in {"returns", "throws"} : SubmitResolve(i, "sigA", cb)
               \/ \E rej \in LiveRejections : SubmitReject(i, rej))

\* C33: every attempt runs to its end.  An attempt that is awaiting an
\* external call eventually ends with the status success or error; a terminal
\* status is eventually followed by idle; and in idle the button of a
\* component that was not disabled by its parent accepts a click again.
C33_AttemptTerminates ==
  /\ \A i \in 1..MaxAttempts :
       (Len(attempts) >= i /\ attempts[i].pc # "done")
         ~> (Len(attempts) >= i /\ attempts[i].pc = "done" /\ status \in Terminal)
  /\ (status \in Terminal)
       ~> (status = "idle" /\ (~props.disabled => ~ButtonDisabled(status, props.disabled)))

\* The second attempt is awaiting its submit call after the first one ran to
\* success and the component returned to idle.
C33_Witness ==
  /\ Len(attempts) = 2
  /\ attempts[1].outcome = "resolved"
  /\ attempts[1].pc = "done"
  /\ attempts[2].pc = "submit"
  /\ status = "authenticating"

\* The payment component with the callback invocations of every attempt
\* counted: the states and steps of Spec, plus that history.
CallbackInit == PayInit /\ ReadyIdle /\ SessionIdle /\ StoreIdle /\ CallbacksCounted

CallbackSpec == CallbackInit /\ [][Next]_vars

\* C34: one completion callback per attempt.  A finished attempt has invoked
\* exactly one of onSuccess and onError, once; an attempt that has not
\* finished has invoked neither; one whose submit call resolved invoked
\* onSuccess, never onError, and does not show the status error; every other
\* finished attempt invoked onError (stated as in the claim; a throwing
\* onSuccess and a rejection with no value contradict it).
C34_OneCallbackPerAttempt ==
  \A i \in DOMAIN attempts :
    LET a == attempts[i] IN
    /\ a.pc # "done" => (a.onSuccessCalls = 0 /\ a.onErrorCalls = 0)
    /\ a.pc = "done" => a.onSuccessCalls + a.onErrorCalls = 1
    /\ (a.pc = "done" /\ a.outcome = "resolved")
         => /\ a.onSuccessCalls = 1
            /\ a.onErrorCalls = 0
            /\ i = Len(attempts) => status # "error"
    /\ (a.pc = "done" /\ a.outcome # "resolved") => a.onErrorCalls = 1

\* C35: the failure handler always completes.  Whenever the status is error,
\* a non-empty error text is set and onError has been invoked for the attempt
\* that failed (stated as in the claim; a rejection with no value, and an
\* Error with an empty message, contradict it).
C35_ErrorHasTextAndCallback ==
  status = "error"
    => /\ error.present
       /\ error.text # <<>>
       /\ Len(attempts) > 0
       /\ LastAttempt.pc = "done"
       /\ LastAttempt.onErrorCalls = 1

\* =========================================================================
\*  DemoStoreView.tsx and useTransactions.ts: a product button whose
\*  onSuccess is handleSuccess, and the transaction history
\* =========================================================================
\* useTransactions.clearTransactions: setTransactions([]).
ClearTransactions ==
  /\ transactions # <<>>
  /\ transactions' = <<>>
  /\ UNCHANGED <<payVars, readyVars, buttonVars, sessionVars, statusVars, trackCallbacks>>

\* The record of a payment of an earlier visit, as loaded from storage.
EarlierRecord ==
  [signature |-> "sigOld", status |-> "completed", amount |-> DemoPrice, currency |-> "USDC"]

\* The store page: <PayWithUSDC amount={product.price} currency="USDC"
\* merchantWallet={APP_CONFIG.merchantWallet || ''} onSuccess=... />, with
\* the history as loadTransactionsFromStorage returned it.
StoreInit ==
  /\ PayInit
  /\ props.currency = "USDC"
  /\ ~props.disabled
  /\ ReadyIdle
  /\ SessionIdle
  /\ transactions \in {<<>>, <<EarlierRecord>>}
  /\ countdown = COUNTDOWN_START
  /\ intervalArmed = FALSE
  /\ CallbacksUncounted

StoreNext ==
  \/ Click
  \/ \E i \in DOMAIN attempts : \E w \in Wallets : ConnectResolve(i, w)
  \/ \E i \in DOMAIN attempts : ConnectReject(i, NoMessage)
  \/ \E i \in DOMAIN attempts : \E o \in {"found", "missing", "rpcError"} : ProbeDone(i, o)
  \/ \E i \in DOMAIN attempts : \E sig \in Signatures : SubmitResolve(i, sig, "handleSuccess")
  \/ \E i \in DOMAIN attempts : \E rej \in LiveRejections : SubmitReject(i, rej)
  \/ TimerTick
  \/ TimerFire
  \/ \E w \in Wallets \cup {None} : SessionChange(w)
  \/ ClearTransactions

StoreSpec == StoreInit /\ [][StoreNext]_vars

\* The step in which the submit call of attempt i resolves.
ResolvesIn(i, as, asNext) ==
  /\ i \in DOMAIN as
  /\ as[i].pc = "submit"
  /\ asNext[i].outcome = "resolved"

\* C36: one record per resolved payment.  The step in which the submit call
\* of an attempt resolves puts one record in front of the history, with
\* status completed and the signature the call resolved with, and leaves the
\* records already there in place; the history grows in no other step, so an
\* attempt that ends in error adds nothing.
C36_OneRecordPerSuccess ==
  [][/\ \A i \in DOMAIN attempts :
          ResolvesIn(i, attempts, attempts')
            => /\ Len(transactions') = Len(transactions) + 1
               /\ transactions'[1].signature = attempts'[i].sig
               /\ transactions'[1].status = "completed"
               /\ SubSeq(transactions', 2, Len(transactions')) = transactions
     /\ Len(transactions') > Len(transactions)
          => \E i \in DOMAIN attempts : ResolvesIn(i, attempts, attempts')
     /\ (status' = "error" /\ status # "error") => transactions' = transactions]_vars

\* Two attempts resolved, the second with another signature: its record is
\* first, the first attempt's record second, the earlier visit's record last.
C36_Witness ==
  /\ Len(attempts) = 2
  /\ attempts[1].sig = "sigA"
  /\ attempts[2].sig = "sigB"
  /\ Len(transactions) = 3
  /\ transactions[1].signature = "sigB"
  /\ transactions[2].signature = "sigA"
  /\ transactions[3] = EarlierRecord

\* C37: the faucet guide belongs to the connected wallet.  The step that
\* opens the guide is the arrival of a result of a check started for the
\* wallet connected at that moment, and a guide that is open while a wallet
\* is connected rests on a result with an advice code for that wallet (stated
\* as in the claim; the effect never compares the two wallets).
C37_GuideOnlyForConnectedWallet ==
  [][/\ (showFaucetGuide' /\ ~showFaucetGuide)
          => \E i \in DOMAIN calls :
               /\ ~calls[i].seen
               /\ calls'[i].seen
               /\ calls[i].addr = walletPubkey'
     /\ (showFaucetGuide' /\ walletPubkey' # None)
          => \E i \in DOMAIN calls' :
               /\ calls'[i].seen
               /\ calls'[i].addr = walletPubkey'
               /\ calls'[i].result.error \in AdviceCodes]_vars

\* =========================================================================
\*  PaymentStatus.tsx: the countdown shown in success and error
\* =========================================================================
\* The setInterval callback: setCountdown(prev => ...), with clearInterval
\* when prev <= 1.
CountdownTick ==
  /\ intervalArmed
  /\ countdown' = IF countdown <= 1 THEN 0 ELSE countdown - 1
  /\ intervalArmed' = (countdown > 1)
  /\ UNCHANGED <<payVars, readyVars, buttonVars, sessionVars, storeVars, trackCallbacks>>

CountdownNext ==
  \/ LiveNext
  \/ CountdownTick

\* The payment component together with the PaymentStatus it renders; the
\* interval and the auto-reset timer are separate browser timers.
CountdownSpec == Init /\ [][CountdownNext]_vars

====
